---- MODULE Spec2Model ----
(***************************************************************************)
(* Model of the CSFloat scanner (src/scanner.py): the scan loop            *)
(* run_continuous_scan, the paginated fetch_listings with its              *)
(* de-duplication against seen_listing_ids, and the price cache of         *)
(* get_market_price.                                                       *)
(*                                                                         *)
(* Time is counted in tenths of a time unit, so that the 2.5-unit waits    *)
(* are whole numbers (25 tenths).  A listing is represented by its         *)
(* identifier.                                                             *)
(***************************************************************************)
EXTENDS Integers, Sequences, FiniteSets, TLC

\* ------------------------------------------------------------------ bounds
\* number of distinct listing identifiers the upstream feed can serve
MaxIds == 2
\* the configured scan_pages (page budget of one fetch)
ScanPages == 2
\* number of scan cycles explored
MaxCycles == 2
\* the evaluation counter saturates here
MaxEvalCount == 2
\* number of get_market_price calls explored
MaxCalls == 3
\* the clock stops advancing between calls here (tenths)
MaxClock == 73000
\* length of the configured tier tables
MaxTiers == 2
\* listings in one batch handed to a strategy
MaxBatch == 2
\* deals in one call of save_deals_to_db
MaxDeals == 2

\* ------------------------------------------------------- program constants
\* time.sleep(60) after an HTTP 429
RateLimitWait == 60
\* time.sleep(2.5) between successful pages, in tenths
InterPageDelayTenths == 25
\* scan_interval_seconds default
ScanInterval == 600
\* cursor = None
NoCursor == 0
\* a cached price is used while younger than 3600 units
CacheTtl == 3600
\* time.sleep(2.5) after a successful price lookup, in tenths
PriceCooldownTenths == 25
\* overpay_max_price_above_base_percentage default
OverpayMaxAboveBase == 5
\* overpay_min_sticker_value default, in dollars
OverpayMinStickerValue == 50
\* low_float_min_price_gap_usd default, in dollars
LowFloatMinGapUsd == 10
\* low_float_top_percentile_threshold default, in percent
LowFloatTopPercentile == 10
\* low_float_premium_retention_percentage default
LowFloatRetention == 30
\* max_float_premium_percentage default
MaxFloatPremium == 3
\* float_proximity_threshold default 0.008, in thousandths
FloatProximity == 8
\* min_price_anomaly_discount_percentage default
AnomalyMinDiscount == 8
\* charm_sale_fee_percentage default
CharmFee == 7

Ids == 1..MaxIds

Tenths(units) == 10 * units

\* ------------------------------------------------------------------- state
VARIABLES
    seen_listing_ids,   \* Scanner.seen_listing_ids
    pc,                 \* position of run_continuous_scan
    page,               \* the for-loop index of fetch_listings
    cursor,             \* fetch_listings: cursor
    all_items,          \* fetch_listings: all_items
    listings,           \* run_continuous_scan: listings
    batch,              \* the sequence handed to the strategies this cycle
    outcome,            \* how the cycle body ended
    cycle,              \* number of cycles started
    trace,              \* requests issued and waits performed, in order
    evalCount,          \* per identifier: times handed to the strategies
    price_cache,        \* Scanner.price_cache
    now,                \* time.time(), in tenths
    calls,              \* the get_market_price calls made, in order
    input,              \* the arguments of the function under evaluation
    result,             \* what it returned: <<>> before the call, <<r>> after
    store,              \* the rows of table deals, in insertion order
    saved,              \* the save_deals_to_db calls made, in order
    txn,                \* the open transaction of a save_deals_to_db call
    reads               \* what the last dashboard SELECT returned

scanVars == <<seen_listing_ids, pc, page, cursor, all_items, listings, batch,
              outcome, cycle, trace, evalCount>>

priceVars == <<price_cache, now, calls>>

evalVars == <<input, result>>

storeVars == <<store, saved, txn, reads>>

vars == <<scanVars, priceVars, evalVars, storeVars>>

\* ----------------------------------------------------------------- helpers
Range(s) == {s[i] : i \in 1..Len(s)}

Occurrences(s, x) == Cardinality({i \in 1..Len(s) : s[i] = x})

RECURSIVE Ascending(_)
\* the sequences of distinct identifiers a page can list
Ascending(S) ==
    IF S = {} THEN {<<>>}
    ELSE LET m == CHOOSE x \in S : \A y \in S : y <= x
             rest == Ascending(S \ {m})
         IN  rest \cup {Append(s, m) : s \in rest}

Pages == Ascending(Ids)

RequestEv(c, r) ==
    [ev |-> "request", cursor |-> c, resp |-> r.resp, items |-> r.items,
     next |-> r.next, tenths |-> 0]

SleepEv(t) ==
    [ev |-> "sleep", cursor |-> NoCursor, resp |-> "", items |-> <<>>,
     next |-> NoCursor, tenths |-> t]

RequestsOf(tr) == SelectSeq(tr, LAMBDA e : e.ev = "request")

\* the response kinds fetch_listings distinguishes
ErrorKinds == {"403", "http_other", "network", "bad_envelope", "bad_items"}

\* what the upstream can answer to one page request; a page that continues
\* carries a fresh cursor token
Responses(tr) ==
    [resp : {"ok"}, items : Pages, next : {NoCursor, Len(RequestsOf(tr)) + 1}]
    \cup [resp : {"429"} \cup ErrorKinds, items : {<<>>}, next : {NoCursor}]

\* ---------------------------------------------------------- fetch_listings
\* a page taken over without the membership test
new_listings_unfiltered(listings_on_page, seen) == listings_on_page

\* new_listings = [item for item in listings_on_page if id not in seen]
new_listings(listings_on_page, seen) ==
    SelectSeq(listings_on_page, LAMBDA i : i \notin seen)

\* all_items.extend(new_listings), only on a valid page
Accumulate(acc, r, seen) ==
    IF r.resp = "ok" THEN acc \o new_listings(r.items, seen) ELSE acc

\* a cursor that is never taken over from the page
NextCursorStale(c, r) == c

\* cursor = data.get('cursor'), only on a valid page
NextCursor(c, r) == IF r.resp = "ok" THEN r.next ELSE c

\* the loop is left by break on every error but 429, and at the end of feed
Breaks(r) ==
    \/ r.resp \in ErrorKinds
    \/ r.resp = "ok" /\ r.next = NoCursor

\* the waits of one iteration: 60 units after a 429, 2.5 between pages
WaitsAfter(r) ==
    IF r.resp = "429" THEN <<SleepEv(Tenths(RateLimitWait))>>
    ELSE IF r.resp = "ok" /\ r.next # NoCursor
         THEN <<SleepEv(InterPageDelayTenths)>>
         ELSE <<>>

\* a retry that stays on the same loop index after a 429
NextPageRetrySameIndex(p, r) == IF r.resp = "429" THEN p ELSE p + 1

\* for page in range(scan_pages): continue moves on to the next index
NextPage(p, r) == p + 1

\* a fetch that gives up its pages when it stops on an error
ReturnNothingOnError(acc, r) == IF r.resp \in ErrorKinds THEN <<>> ELSE acc

\* return all_items
ReturnValue(acc, r) == acc

\* ----------------------------------------------------- run_continuous_scan
\* a cycle body whose exception escapes the loop
AfterCycleUncaught(raised) == IF raised THEN "dead" ELSE "sleep"

\* try/except Exception around the cycle body, then the interval sleep
AfterCycle(raised) == "sleep"

\* a merge that keeps only the identifiers of the cycle just finished
MergeSeenPruning(seen, ls, raised) == IF raised THEN seen ELSE Range(ls)

\* for item in listings: self.seen_listing_ids.add(item.get('id')),
\* the last statement inside the try block
MergeSeen(seen, ls, raised) == IF raised THEN seen ELSE seen \cup Range(ls)

\* deals.extend(self.analyze_...(listings)): the full batch goes to each
\* strategy
Evaluated(ls) == ls

CountUp(n, k) == IF n + k > MaxEvalCount THEN MaxEvalCount ELSE n + k

Init ==
    /\ seen_listing_ids = {}
    /\ pc = "start"
    /\ page = 0
    /\ cursor = NoCursor
    /\ all_items = <<>>
    /\ listings = <<>>
    /\ batch = <<>>
    /\ outcome = "none"
    /\ cycle = 0
    /\ trace = <<>>
    /\ evalCount = [i \in Ids |-> 0]
    /\ price_cache = <<>>
    /\ now = 0
    /\ calls = <<>>
    /\ input = <<>>
    /\ result = <<>>
    /\ store = <<>>
    /\ saved = <<>>
    /\ txn = <<>>
    /\ reads = <<>>

\* while True: ... listings = self.fetch_listings() is entered
StartCycle ==
    /\ pc = "start"
    /\ cycle < MaxCycles
    /\ cycle' = cycle + 1
    /\ all_items' = <<>>
    /\ cursor' = NoCursor
    /\ page' = 0
    /\ trace' = <<>>
    /\ batch' = <<>>
    /\ outcome' = "none"
    /\ listings' = <<>>
    /\ pc' = IF ScanPages > 0 THEN "fetch" ELSE "analyze"
    /\ UNCHANGED <<seen_listing_ids, evalCount>>
    /\ UNCHANGED <<priceVars, evalVars, storeVars>>

\* one iteration of the for loop of fetch_listings; the iteration that ends
\* the loop also returns
FetchPage ==
    /\ pc = "fetch"
    /\ \E r \in Responses(trace) :
        LET over == Breaks(r) \/ NextPage(page, r) >= ScanPages IN
        /\ trace' = trace \o <<RequestEv(cursor, r)>> \o WaitsAfter(r)
        /\ all_items' = Accumulate(all_items, r, seen_listing_ids)
        /\ cursor' = NextCursor(cursor, r)
        /\ page' = IF Breaks(r) THEN page ELSE NextPage(page, r)
        /\ listings' = IF over THEN ReturnValue(all_items', r) ELSE listings
        /\ pc' = IF over THEN "analyze" ELSE "fetch"
    /\ UNCHANGED <<seen_listing_ids, batch, outcome, cycle, evalCount>>
    /\ UNCHANGED <<priceVars, evalVars, storeVars>>

\* the body of the try block after the fetch: strategies, persistence, and
\* the merge into seen_listing_ids.  An exception (sqlite3 connect/commit in
\* save_deals_to_db, or a strategy's set-up code) skips the merge.
Analyze ==
    /\ pc = "analyze"
    /\ IF listings = <<>>
       THEN /\ outcome' = "empty"
            /\ pc' = AfterCycle(FALSE)
            /\ UNCHANGED <<seen_listing_ids, batch, evalCount>>
       ELSE \E o \in {"no_deals", "saved", "raised"} :
            /\ outcome' = o
            /\ batch' = Evaluated(listings)
            /\ evalCount' = [i \in Ids |->
                                CountUp(evalCount[i], Occurrences(batch', i))]
            /\ seen_listing_ids' =
                   MergeSeen(seen_listing_ids, listings, o = "raised")
            /\ pc' = AfterCycle(o = "raised")
    /\ UNCHANGED <<page, cursor, all_items, listings, cycle, trace>>
    /\ UNCHANGED <<priceVars, evalVars, storeVars>>

\* time.sleep(interval), then the next turn of while True; the locals of the
\* finished cycle are dead from here on and are emptied
Sleep ==
    /\ pc = "sleep"
    /\ trace' = <<SleepEv(Tenths(ScanInterval))>>
    /\ pc' = "start"
    /\ all_items' = <<>>
    /\ listings' = <<>>
    /\ batch' = <<>>
    /\ UNCHANGED <<seen_listing_ids, page, cursor, outcome, cycle, evalCount>>
    /\ UNCHANGED <<priceVars, evalVars, storeVars>>

Next == StartCycle \/ FetchPage \/ Analyze \/ Sleep

Spec == Init /\ [][Next]_vars

\* -------------------------------------------------------- get_market_price
\* the item names looked up
Names == {"AK-47 | Redline (Minimal Wear)", "AK-47 | Redline (Factory New)"}

\* the prices the lookup service can quote
PriceValues == {0, 7, 9}

\* the ways a lookup fails: requests.get raises, raise_for_status raises,
\* the body or its price does not parse, success is false
LookupFailures == {"network", "http_error", "malformed", "not_success"}

LookupResponses ==
    [status : {"ok"}, price : PriceValues]
    \cup [status : LookupFailures, price : {0}]

\* how far the clock moves between calls: just short of the expiry of an
\* entry stored one cooldown earlier, and exactly to it
TickSteps ==
    {Tenths(CacheTtl) - PriceCooldownTenths - 1,
     Tenths(CacheTtl) - PriceCooldownTenths}

\* self.price_cache.get(name): the entry, or nothing
CacheGet(cache, name) ==
    IF name \in DOMAIN cache THEN <<cache[name]>> ELSE <<>>

\* an expiry test that takes the age in the wrong unit
IsFreshWrongUnit(timestamp, t) == (t - timestamp) < CacheTtl

\* an expiry test that still accepts an entry of exactly 3600 units
IsFreshInclusive(timestamp, t) == (t - timestamp) <= Tenths(CacheTtl)

\* (time.time() - cached_price['timestamp']) < 3600
IsFresh(timestamp, t) == (t - timestamp) < Tenths(CacheTtl)

\* self.price_cache[name] = {'price': price, 'timestamp': time.time()}
CachePut(cache, name, price, t) ==
    [n \in DOMAIN cache \cup {name} |->
        IF n = name THEN [price |-> price, timestamp |-> t] ELSE cache[n]]

\* a lookup whose body says success = false is stored all the same
StoreResultAlsoUnsuccessful(cache, name, r, t) ==
    IF r.status \in {"ok", "not_success"}
    THEN CachePut(cache, name, r.price, t) ELSE cache

\* the cache after the external lookup answered r at time t: only a parsed
\* body with success set is stored
StoreResult(cache, name, r, t) ==
    IF r.status = "ok" THEN CachePut(cache, name, r.price, t) ELSE cache

\* return price on success; return 0 in the except branch and at the end
ReturnedPrice(r) == IF r.status = "ok" THEN r.price ELSE 0

\* a cooldown taken after every external lookup, failed ones included
CooldownAfterAnyLookup(r) == PriceCooldownTenths

\* time.sleep(2.5) sits inside the success branch, after the store
CooldownAfter(r) == IF r.status = "ok" THEN PriceCooldownTenths ELSE 0

PriceInit ==
    /\ price_cache = <<>>
    /\ now = 0
    /\ calls = <<>>
    /\ seen_listing_ids = {}
    /\ pc = "start"
    /\ page = 0
    /\ cursor = NoCursor
    /\ all_items = <<>>
    /\ listings = <<>>
    /\ batch = <<>>
    /\ outcome = "none"
    /\ cycle = 0
    /\ trace = <<>>
    /\ evalCount = [i \in Ids |-> 0]
    /\ input = <<>>
    /\ result = <<>>
    /\ store = <<>>
    /\ saved = <<>>
    /\ txn = <<>>
    /\ reads = <<>>

\* one call of get_market_price(market_hash_name); the request itself takes
\* no time on the clock, so the timestamp stored is the time of the call
GetMarketPrice ==
    /\ Len(calls) < MaxCalls
    /\ \E name \in Names :
        LET cached_price == CacheGet(price_cache, name) IN
        IF cached_price # <<>> /\ IsFresh(cached_price[1].timestamp, now)
        THEN /\ calls' = Append(calls,
                    [name |-> name, at |-> now, requested |-> FALSE,
                     status |-> "cached", quoted |-> 0,
                     ret |-> cached_price[1].price, source |-> "cache",
                     waited |-> 0, before |-> cached_price,
                     after |-> cached_price])
             /\ UNCHANGED <<price_cache, now>>
        ELSE \E r \in LookupResponses :
             LET ok == r.status = "ok" IN
             /\ price_cache' = StoreResult(price_cache, name, r, now)
             /\ now' = now + CooldownAfter(r)
             /\ calls' = Append(calls,
                    [name |-> name, at |-> now, requested |-> TRUE,
                     status |-> r.status, quoted |-> r.price,
                     ret |-> ReturnedPrice(r),
                     source |-> IF ok THEN "lookup" ELSE "sentinel",
                     waited |-> CooldownAfter(r),
                     before |-> cached_price,
                     after |-> CacheGet(price_cache', name)])
    /\ UNCHANGED <<scanVars, evalVars, storeVars>>

\* time passing between two calls
Tick ==
    /\ \E d \in TickSteps :
        /\ now + d <= MaxClock
        /\ now' = now + d
    /\ UNCHANGED <<price_cache, calls>>
    /\ UNCHANGED <<scanVars, evalVars, storeVars>>

PriceNext == GetMarketPrice \/ Tick

SpecPrice == PriceInit /\ [][PriceNext]_vars

\* ------------------------------------------------- Scanner() at rest
\* the state of a fresh Scanner, for the specifications that exercise one
\* function on its own
ScanIdle ==
    /\ seen_listing_ids = {}
    /\ pc = "start"
    /\ page = 0
    /\ cursor = NoCursor
    /\ all_items = <<>>
    /\ listings = <<>>
    /\ batch = <<>>
    /\ outcome = "none"
    /\ cycle = 0
    /\ trace = <<>>
    /\ evalCount = [i \in Ids |-> 0]

PriceIdle ==
    /\ price_cache = <<>>
    /\ now = 0
    /\ calls = <<>>

StoreIdle ==
    /\ store = <<>>
    /\ saved = <<>>
    /\ txn = <<>>
    /\ reads = <<>>

\* ------------------------------------------------------ is_deal_profitable
\* Amounts (profit, base price, min_profit_usd) share one unit.

\* the sequences over S of length at most n
RECURSIVE SeqsUpTo(_, _)
SeqsUpTo(S, n) ==
    IF n = 0 THEN {<<>>}
    ELSE LET shorter == SeqsUpTo(S, n - 1)
         IN  shorter \cup {Append(q, x) : q \in shorter, x \in S}

\* profit >= min_profit_usd or profit_percent >= min_profit_percentage,
\* with profit_percent = (profit / base_price) * 100 and base_price > 0
TierAccepts(tier, profit, base_price) ==
    \/ profit >= tier.min_profit_usd
    \/ profit * 100 >= tier.min_profit_percentage * base_price

RECURSIVE FallThroughTiers(_, _, _)
\* a walk that goes on to the later tiers when the first match rejects
FallThroughTiers(targets, profit, base_price) ==
    IF targets = <<>> THEN FALSE
    ELSE IF /\ base_price <= Head(targets).max_skin_price
            /\ TierAccepts(Head(targets), profit, base_price)
         THEN TRUE
         ELSE FallThroughTiers(Tail(targets), profit, base_price)

RECURSIVE WalkTiers(_, _, _)
\* for tier in targets: the first tier with base_price <= max_skin_price
\* decides; return False after the loop
WalkTiers(targets, profit, base_price) ==
    IF targets = <<>> THEN FALSE
    ELSE IF base_price <= Head(targets).max_skin_price
         THEN TierAccepts(Head(targets), profit, base_price)
         ELSE WalkTiers(Tail(targets), profit, base_price)

\* is_deal_profitable(profit, base_price) under dynamic_profit_targets
is_deal_profitable(profit, base_price, targets) ==
    IF base_price <= 0 THEN FALSE
    ELSE WalkTiers(targets, profit, base_price)

\* the tiers a configuration can hold
ProfitTiers ==
    [max_skin_price : {10, 50},
     min_profit_usd : {2, 5},
     min_profit_percentage : {10, 30}]

ProfitTables == SeqsUpTo(ProfitTiers, MaxTiers)

\* the index of the first tier whose ceiling admits base_price, 0 if none
FirstMatch(targets, base_price) ==
    IF \E k \in 1..Len(targets) : base_price <= targets[k].max_skin_price
    THEN CHOOSE k \in 1..Len(targets) :
            /\ base_price <= targets[k].max_skin_price
            /\ \A j \in 1..(k - 1) : base_price > targets[j].max_skin_price
    ELSE 0

\* targets with everything after its first match replaced by tail
Retailed(targets, base_price, tail) ==
    LET k == FirstMatch(targets, base_price)
    IN  IF k = 0 THEN targets ELSE SubSeq(targets, 1, k) \o tail

ProfitInit ==
    /\ input \in [profit : {-1, 1, 3, 6}, base_price : {-5, 0, 10, 20, 60},
                  targets : ProfitTables,
                  tail : SeqsUpTo(ProfitTiers, 1)]
    /\ result = <<>>
    /\ ScanIdle /\ PriceIdle /\ StoreIdle

\* the call is_deal_profitable(profit, base_price), and the same call under
\* the table whose tiers after the first match are replaced
IsDealProfitable ==
    /\ result = <<>>
    /\ input # <<>>
    /\ result' =
         <<[value |-> is_deal_profitable(input.profit, input.base_price,
                                         input.targets),
            retailed |-> is_deal_profitable(input.profit, input.base_price,
                            Retailed(input.targets, input.base_price,
                                     input.tail))]>>
    /\ UNCHANGED <<input, scanVars, priceVars, storeVars>>

ProfitNext == IsDealProfitable

SpecProfit == ProfitInit /\ [][ProfitNext]_vars

\* ------------------------------------------------------------- strategies
\* Money arrives from the feed in cents and from the configuration in
\* dollars; the strategies divide and multiply by percentages, so all
\* amounts are held in hundredths of a cent, in which every product below
\* is whole.  Float values are held in thousandths.
Units(cents) == 100 * cents

Usd(dollars) == 10000 * dollars

\* self.wear_tiers, lower index is better wear
wear_tiers ==
    <<"Factory New", "Minimal Wear", "Field-Tested", "Well-Worn",
      "Battle-Scarred">>

\* self.wear_tier_min_floats, in thousandths
wear_tier_min_floats ==
    [w \in {"Factory New", "Minimal Wear", "Field-Tested", "Well-Worn",
            "Battle-Scarred"} |->
        CASE w = "Factory New" -> 0
          [] w = "Minimal Wear" -> 70
          [] w = "Field-Tested" -> 150
          [] w = "Well-Worn" -> 380
          [] w = "Battle-Scarred" -> 450]

\* the weapons a market name can start with, and the included_weapons filter
Weapons == {"AK-47", "P250"}

included_weapons == {"AK-47"}

\* a dynamic_profit_targets table given in dollars, in amounts
InUnits(targets) ==
    [k \in 1..Len(targets) |->
        [max_skin_price |-> Usd(targets[k].max_skin_price),
         min_profit_usd |-> Usd(targets[k].min_profit_usd),
         min_profit_percentage |-> targets[k].min_profit_percentage]]

\* what one listing yields in one strategy: a deal, nothing (continue), or
\* an exception caught by the listing's own try
Skip == [status |-> "skip", deals |-> <<>>, lookups |-> <<>>]

Raise == [status |-> "raise", deals |-> <<>>, lookups |-> <<>>]

Emit(item, strategy, profit) ==
    [status |-> "deal",
     deals |-> <<[listing_id |-> item.id, strategy |-> strategy,
                  profit |-> profit]>>,
     lookups |-> <<>>]

\* the same outcome, after the get_market_price call for key
AfterLookup(key, res) == [res EXCEPT !.lookups = <<key>> \o @]

RECURSIVE DecorationValue(_)
\* sum(s['scm']['price'] or s['reference']['price'] for s in decorations),
\* in cents; an absent or zero quote is 0
DecorationValue(decorations) ==
    IF decorations = <<>> THEN 0
    ELSE (IF Head(decorations).scm # 0 THEN Head(decorations).scm
          ELSE Head(decorations).ref)
         + DecorationValue(Tail(decorations))

\* strategy_name.title()
Title(strategy_name) ==
    CASE strategy_name = "conservative" -> "Conservative"
      [] strategy_name = "aggressive" -> "Aggressive"

RECURSIVE RetentionFor(_, _)
\* the retention of the first bracket with base_price <= max_skin_price, in
\* percent; 0.0 when the loop finds none
RetentionFor(retention_tiers, base_price) ==
    IF retention_tiers = <<>> THEN 0
    ELSE IF base_price <= Usd(Head(retention_tiers).max_skin_price)
         THEN Head(retention_tiers).retention
         ELSE RetentionFor(Tail(retention_tiers), base_price)

\* one turn of the loop of analyze_sticker_deals(listings, strategy_name)
sticker_item(item, strategy_name, cfg) ==
    IF item.malformed = "item" THEN Raise
    ELSE IF item.is_souvenir THEN Skip
    ELSE IF item.weapon \notin included_weapons THEN Skip
    ELSE IF item.malformed = "price" THEN Raise
    ELSE
    LET listing_price == Units(item.price)
        base_price == Units(item.base_price)
        sticker_cents == DecorationValue(item.stickers)
        retention ==
            RetentionFor(cfg.sticker_retention_tiers[strategy_name],
                         base_price)
        retained_value == sticker_cents * retention
        profit == (base_price + retained_value) - listing_price
    IN  IF base_price = 0 THEN Skip
        ELSE IF sticker_cents = 0 THEN Skip
        ELSE IF retention = 0 THEN Skip
        ELSE IF is_deal_profitable(profit, base_price,
                                   InUnits(cfg.dynamic_profit_targets))
             THEN Emit(item, Title(strategy_name), profit)
             ELSE Skip

\* an admission test that leaves out the sticker-value floor
overpay_admits_without_floor(listing_price, base_price, sticker_cents) ==
    ~(base_price = 0
      \/ listing_price * 100 > base_price * (100 + OverpayMaxAboveBase))

\* neither continue of analyze_high_overpay_deals is taken
overpay_admits(listing_price, base_price, sticker_cents) ==
    /\ ~(base_price = 0
         \/ listing_price * 100 > base_price * (100 + OverpayMaxAboveBase))
    /\ ~(Units(sticker_cents) < Usd(OverpayMinStickerValue))

\* one turn of the loop of analyze_high_overpay_deals(listings)
overpay_item(item, cfg) ==
    IF item.malformed = "item" THEN Raise
    ELSE IF item.is_souvenir THEN Skip
    ELSE IF item.weapon \notin included_weapons THEN Skip
    ELSE IF item.malformed = "price" THEN Raise
    ELSE
    LET listing_price == Units(item.price)
        base_price == Units(item.base_price)
        sticker_cents == DecorationValue(item.stickers)
    IN  IF overpay_admits(listing_price, base_price, sticker_cents)
        THEN Emit(item, "High Overpay Potential", Units(sticker_cents))
        ELSE Skip

\* the decorations a listing can carry: market quote and reference quote,
\* in cents
Decorations == [scm : {0, 3000}, ref : {0, 2500}]

\* a well-formed AK-47 listing, the fields not under study fixed
PlainItem ==
    [id |-> 1, is_souvenir |-> FALSE, weapon |-> "AK-47",
     qualified |-> FALSE, wear_name |-> "Field-Tested", float_value |-> 200,
     price |-> 10000, base_price |-> 10000, stickers |-> <<>>,
     keychains |-> <<>>, malformed |-> "none"]

\* PlainItem with the fields of the record f replaced
With(item, f) ==
    [k \in DOMAIN item |-> IF k \in DOMAIN f THEN f[k] ELSE item[k]]

\* two dynamic_profit_targets tables, in dollars: one that asks for a real
\* profit and one that accepts every deal on a base price up to 200
TargetTables ==
    {<<[max_skin_price |-> 50, min_profit_usd |-> 2,
        min_profit_percentage |-> 10],
       [max_skin_price |-> 200, min_profit_usd |-> 10,
        min_profit_percentage |-> 12]>>,
     <<[max_skin_price |-> 200, min_profit_usd |-> -1000,
        min_profit_percentage |-> -1000]>>,
     <<>>}

OverpayInit ==
    /\ input \in
        [item : {With(PlainItem, f) :
                    f \in [is_souvenir : BOOLEAN, weapon : Weapons,
                           price : {0, 10000, 10500, 10501},
                           base_price : {0, 10000},
                           stickers : SeqsUpTo(Decorations, 2)]},
         cfg : [dynamic_profit_targets : TargetTables]]
    /\ result = <<>>
    /\ ScanIdle /\ PriceIdle /\ StoreIdle

\* analyze_high_overpay_deals on a batch of the one listing
AnalyzeHighOverpay ==
    /\ result = <<>>
    /\ input # <<>>
    /\ result' = <<overpay_item(input.item, input.cfg)>>
    /\ UNCHANGED <<input, scanVars, priceVars, storeVars>>

OverpayNext == AnalyzeHighOverpay

SpecOverpay == OverpayInit /\ [][OverpayNext]_vars

\* the sticker_retention_tiers tables a variant can be configured with,
\* ceilings in dollars and retention in percent
RetentionTables ==
    {<<>>,
     <<[max_skin_price |-> 100, retention |-> 20]>>,
     <<[max_skin_price |-> 100, retention |-> 0],
       [max_skin_price |-> 500, retention |-> 20]>>,
     <<[max_skin_price |-> 100, retention |-> 20],
       [max_skin_price |-> 500, retention |-> 0]>>}

Variants == {"conservative", "aggressive"}

StickerInit ==
    /\ input \in
        [item : {With(PlainItem, f) :
                    f \in [is_souvenir : BOOLEAN, weapon : Weapons,
                           price : {4000, 9500, 10500},
                           base_price : {0, 5000, 10000, 60000},
                           stickers : SeqsUpTo(Decorations, 2)]},
         cfg : [dynamic_profit_targets : TargetTables,
                sticker_retention_tiers : [Variants -> RetentionTables]]]
    /\ result = <<>>
    /\ ScanIdle /\ PriceIdle /\ StoreIdle

\* analyze_sticker_deals(listings, strategy_name) on a batch of the one
\* listing
AnalyzeSticker(strategy_name) ==
    /\ result = <<>>
    /\ input # <<>>
    /\ result' =
        <<[strategy_name |-> strategy_name]
          @@ sticker_item(input.item, strategy_name, input.cfg)>>
    /\ UNCHANGED <<input, scanVars, priceVars, storeVars>>

StickerNext == \E strategy_name \in Variants : AnalyzeSticker(strategy_name)

SpecSticker == StickerInit /\ [][StickerNext]_vars

\* self.wear_tiers.index(wear_name), counting from 1
WearIndex(wear_name) == CHOOSE k \in 1..Len(wear_tiers) : wear_tiers[k] = wear_name

\* the name asked of get_market_price: re.sub(r' \((.*?)\)', '', name)
\* removes every parenthesised part of the market name, the wear and any
\* other, and the wear asked for is appended
LookupName(item, wear) == [weapon |-> item.weapon, qualified |-> FALSE, wear |-> wear]

\* the market name of the same skin in another wear
SameSkin(item, wear) ==
    [weapon |-> item.weapon, qualified |-> item.qualified, wear |-> wear]

\* one turn of the loop of analyze_low_float_deals(listings); quote is what
\* get_market_price returns for the name asked, in cents, 0 on failure
low_float_item(item, cfg, quote) ==
    IF item.malformed = "item" THEN Raise
    ELSE IF item.is_souvenir THEN Skip
    ELSE IF item.weapon \notin included_weapons THEN Skip
    ELSE IF item.wear_name = "" \/ item.wear_name = "Factory New" THEN Skip
    ELSE IF item.wear_name \notin Range(wear_tiers) THEN Raise
    ELSE
    LET current_wear_index == WearIndex(item.wear_name)
        wear_min_float == wear_tier_min_floats[item.wear_name]
        wear_max_float ==
            wear_tier_min_floats[wear_tiers[current_wear_index - 1]]
        tier_range == wear_max_float - wear_min_float
        next_best_wear == wear_tiers[current_wear_index - 1]
        current_wear_price == Units(item.base_price)
        next_best_wear_price == Units(quote)
        price_difference == next_best_wear_price - current_wear_price
        potential_gain == (quote - item.base_price) * LowFloatRetention
        premium_paid == Units(item.price) - current_wear_price
        profit == potential_gain - premium_paid
    IN  IF \/ tier_range <= 0
           \/ item.float_value * 100
                > wear_min_float * 100 + tier_range * LowFloatTopPercentile
        THEN Skip
        ELSE AfterLookup(LookupName(item, next_best_wear),
                IF current_wear_price = 0 \/ next_best_wear_price = 0
                THEN Skip
                ELSE IF price_difference < Usd(LowFloatMinGapUsd) THEN Skip
                ELSE IF item.malformed = "price" THEN Raise
                ELSE IF is_deal_profitable(profit, current_wear_price,
                            InUnits(cfg.dynamic_profit_targets))
                     THEN Emit(item, "Low Float", profit)
                     ELSE Skip)

\* the wear_name values of the feed: the five tiers, none, and a name the
\* scanner does not know
WearNames == Range(wear_tiers) \cup {"", "Unknown"}

\* the ways a listing can be malformed: its item descriptor or its price is
\* not of the expected type
Malformations == {"none", "item", "price"}

LowFloatInit ==
    /\ input \in
        [item : {With(PlainItem, f) :
                    f \in [is_souvenir : BOOLEAN, weapon : Weapons,
                           wear_name : WearNames,
                           float_value : {70, 151, 200, 455, 1000},
                           price : {10000, 12000},
                           base_price : {0, 10000},
                           malformed : Malformations]},
         cfg : [dynamic_profit_targets : TargetTables],
         quote : {0, 10500, 20000}]
    /\ result = <<>>
    /\ ScanIdle /\ PriceIdle /\ StoreIdle

\* analyze_low_float_deals on a batch of the one listing
AnalyzeLowFloat ==
    /\ result = <<>>
    /\ input # <<>>
    /\ result' = <<low_float_item(input.item, input.cfg, input.quote)>>
    /\ UNCHANGED <<input, scanVars, priceVars, storeVars>>

LowFloatNext == AnalyzeLowFloat

SpecLowFloat == LowFloatInit /\ [][LowFloatNext]_vars

\* what get_market_price returns for the name asked, in cents: the quote of
\* the skin when the name is that of the skin in the wear asked for, and 0
\* (success false) for a name no skin has
MarketQuote(item, key, quote) ==
    IF key = SameSkin(item, key.wear) THEN quote ELSE 0

\* an eligibility test that ignores the proximity threshold
near_tier_floor_any(float_value, wear_min_float) ==
    wear_min_float # 0

\* wear_min_float and float_value < wear_min_float + proximity_threshold
near_tier_floor(float_value, wear_min_float) ==
    wear_min_float # 0 /\ float_value < wear_min_float + FloatProximity

\* one turn of the loop of analyze_float_tier_upgrade(listings); a
\* float_value of 0 stands for an absent one as well
float_tier_item(item, cfg, quote) ==
    IF item.malformed = "item" THEN Raise
    ELSE IF \/ item.wear_name = "" \/ item.float_value = 0
            \/ item.wear_name = "Factory New" \/ item.is_souvenir
         THEN Skip
    ELSE IF item.weapon \notin included_weapons THEN Skip
    ELSE IF item.wear_name \notin Range(wear_tiers) THEN Skip
    ELSE IF ~near_tier_floor(item.float_value,
                             wear_tier_min_floats[item.wear_name])
         THEN Skip
    ELSE IF item.malformed = "price" THEN Raise
    ELSE
    LET listing_price == Units(item.price)
        base_price == Units(item.base_price)
        current_wear_index == WearIndex(item.wear_name)
        next_best_wear == wear_tiers[current_wear_index - 1]
        key == LookupName(item, next_best_wear)
        next_tier_price == Units(MarketQuote(item, key, quote))
        profit == next_tier_price - listing_price
    IN  IF /\ base_price > 0
           /\ listing_price * 100 > base_price * (100 + MaxFloatPremium)
        THEN Skip
        ELSE AfterLookup(key,
                IF next_tier_price = 0 THEN Skip
                ELSE IF is_deal_profitable(profit, listing_price,
                            InUnits(cfg.dynamic_profit_targets))
                     THEN Emit(item, "Float Tier Upgrade", profit)
                     ELSE Skip)

FloatTierInit ==
    /\ input \in
        [item : {With(PlainItem, f) :
                    f \in [is_souvenir : BOOLEAN, weapon : Weapons,
                           qualified : BOOLEAN,
                           wear_name : WearNames,
                           float_value : {0, 100, 151, 200, 455},
                           price : {10000, 10400},
                           base_price : {0, 10000},
                           malformed : Malformations]},
         cfg : [dynamic_profit_targets : TargetTables,
                float_tier_upgrade_enabled : BOOLEAN],
         quote : {0, 20000}]
    /\ result = <<>>
    /\ ScanIdle /\ PriceIdle /\ StoreIdle

\* the float tier upgrade step of a scan cycle on a batch of the one
\* listing: analyze_float_tier_upgrade is called only when
\* float_tier_upgrade.enabled is set
FloatTierUpgradeStep ==
    /\ result = <<>>
    /\ input # <<>>
    /\ result' =
        IF input.cfg.float_tier_upgrade_enabled
        THEN <<[called |-> TRUE]
               @@ float_tier_item(input.item, input.cfg, input.quote)>>
        ELSE <<[called |-> FALSE] @@ Skip>>
    /\ UNCHANGED <<input, scanVars, priceVars, storeVars>>

FloatTierNext == FloatTierUpgradeStep

SpecFloatTier == FloatTierInit /\ [][FloatTierNext]_vars

\* one turn of the loop of analyze_price_anomaly_deals(listings)
anomaly_item(item, cfg) ==
    IF item.malformed = "item" THEN Raise
    ELSE IF item.is_souvenir THEN Skip
    ELSE IF item.weapon \notin included_weapons THEN Skip
    ELSE IF item.malformed = "price" THEN Raise
    ELSE
    LET listing_price == Units(item.price)
        base_price == Units(item.base_price)
        profit == base_price - listing_price
    IN  IF base_price = 0 THEN Skip
        ELSE IF /\ (base_price - listing_price) * 100
                     >= AnomalyMinDiscount * base_price
                /\ is_deal_profitable(profit, base_price,
                                      InUnits(cfg.dynamic_profit_targets))
             THEN Emit(item, "Price Anomaly", profit)
             ELSE Skip

\* one turn of the loop of analyze_charm_deals(listings)
charm_item(item, cfg) ==
    IF item.malformed = "item" THEN Raise
    ELSE IF item.is_souvenir \/ item.keychains = <<>> THEN Skip
    ELSE IF item.weapon \notin included_weapons THEN Skip
    ELSE IF item.malformed = "price" THEN Raise
    ELSE
    LET listing_price == Units(item.price)
        base_price == Units(item.base_price)
        charm_cents == DecorationValue(item.keychains)
        value_after_fees == charm_cents * (100 - CharmFee)
        profit == (base_price + value_after_fees) - listing_price
    IN  IF base_price = 0 THEN Skip
        ELSE IF charm_cents = 0 THEN Skip
        ELSE IF is_deal_profitable(profit, base_price,
                                   InUnits(cfg.dynamic_profit_targets))
             THEN Emit(item, "Charm Arbitrage", profit)
             ELSE Skip

\* the strategies of a scan cycle, in the order of run_continuous_scan
Strategies ==
    <<"conservative", "aggressive", "charm", "low_float", "overpay",
      "anomaly", "float_tier">>

\* the body of the strategy's loop for one listing
item_outcome(strategy, item, cfg, quote) ==
    CASE strategy \in Variants -> sticker_item(item, strategy, cfg)
      [] strategy = "charm" -> charm_item(item, cfg)
      [] strategy = "low_float" -> low_float_item(item, cfg, quote)
      [] strategy = "overpay" -> overpay_item(item, cfg)
      [] strategy = "anomaly" -> anomaly_item(item, cfg)
      [] strategy = "float_tier" -> float_tier_item(item, cfg, quote)

\* a loop whose try encloses the whole loop: the first exception ends the
\* strategy and leaves it by raising
after_item_uncaught(outcome_of_item, rest) ==
    IF outcome_of_item.status = "raise"
    THEN [deals |-> <<>>, escaped |-> TRUE]
    ELSE [deals |-> outcome_of_item.deals \o rest.deals,
          escaped |-> rest.escaped]

\* try ... except Exception inside the loop: an exception in one listing's
\* turn is printed and the loop goes on to the rest of the batch
after_item(outcome_of_item, rest) ==
    [deals |-> outcome_of_item.deals \o rest.deals,
     escaped |-> rest.escaped]

RECURSIVE analyze(_, _, _, _)
\* for item in listings: ...; return deals
analyze(strategy, batch_listings, cfg, quote) ==
    IF batch_listings = <<>> THEN [deals |-> <<>>, escaped |-> FALSE]
    ELSE after_item(
            item_outcome(strategy, Head(batch_listings), cfg, quote),
            analyze(strategy, Tail(batch_listings), cfg, quote))

\* a listing every strategy but Low Float finds a deal in, under a
\* permissive profit table
RichItem ==
    With(PlainItem,
         [float_value |-> 151, price |-> 9000,
          stickers |-> <<[scm |-> 3000, ref |-> 0], [scm |-> 0, ref |-> 2500]>>,
          keychains |-> <<[scm |-> 3000, ref |-> 0]>>])

\* listings of a batch: sound ones, ones that raise, and ones with the wear
\* or the reference price missing
BatchItems ==
    {With(RichItem, f) :
        f \in [malformed : Malformations, base_price : {0, 10000},
               wear_name : {"", "Field-Tested"}]}

\* the batches of up to MaxBatch listings; the listing in place k has
\* identifier k
Batches ==
    {[k \in 1..Len(b) |-> With(b[k], [id |-> k])] :
        b \in SeqsUpTo(BatchItems, MaxBatch)}

\* sticker_retention_tiers of the batch runs
BatchRetention ==
    [v \in Variants |->
        IF v = "conservative"
        THEN <<[max_skin_price |-> 100, retention |-> 20]>>
        ELSE <<[max_skin_price |-> 500, retention |-> 20]>>]

BatchInit ==
    /\ input \in
        [listings : Batches,
         cfg : [dynamic_profit_targets : TargetTables,
                sticker_retention_tiers : {BatchRetention}],
         quote : {20000}]
    /\ result = <<>>
    /\ ScanIdle /\ PriceIdle /\ StoreIdle

\* one strategy run on the batch
AnalyzeBatch(strategy) ==
    /\ result = <<>>
    /\ input # <<>>
    /\ result' =
        <<[strategy |-> strategy]
          @@ analyze(strategy, input.listings, input.cfg, input.quote)>>
    /\ UNCHANGED <<input, scanVars, priceVars, storeVars>>

BatchNext == \E k \in 1..Len(Strategies) : AnalyzeBatch(Strategies[k])

SpecBatch == BatchInit /\ [][BatchNext]_vars

\* ------------------------------------------------------------ deals table
\* The table deals of init_db: listing_id TEXT UNIQUE.  A row holds the
\* columns the scanner writes that the dashboard groups and sorts by.
Row(deal) ==
    [listing_id |-> deal.listing_id, strategy |-> deal.strategy,
     profit |-> deal.profit]

\* the listing_id values of the rows
ListingIds(rows) == {rows[k].listing_id : k \in 1..Len(rows)}

\* INSERT OR REPLACE: the row of the same listing_id is deleted and the new
\* one inserted
InsertOrReplace(st, deal) ==
    [rows |-> Append(SelectSeq(st.rows,
                        LAMBDA r : r.listing_id # deal.listing_id),
                     Row(deal)),
     saved_count |-> st.saved_count + 1]

\* one turn of the loop of save_deals_to_db: INSERT, counted; on the
\* IntegrityError of the UNIQUE column: pass
InsertDeal(st, deal) ==
    IF deal.listing_id \in ListingIds(st.rows) THEN st
    ELSE [rows |-> Append(st.rows, Row(deal)),
          saved_count |-> st.saved_count + 1]

RECURSIVE InsertAll(_, _)
\* for deal in deals: ...
InsertAll(st, deals) ==
    IF deals = <<>> THEN st
    ELSE InsertAll(InsertDeal(st, Head(deals)), Tail(deals))

\* the deals the strategies can hand over, identifiers non-null; two
\* strategies find listing 1, one the others
Deals ==
    {d \in [listing_id : 1..MaxIds,
            strategy : {"Conservative", "Aggressive"}, profit : {15}] :
        d.strategy = "Aggressive" => d.listing_id = 1}

\* a save_deals_to_db call holds the write lock of the database from its
\* first INSERT to the end of its transaction
WriteLocked == txn # <<>>

StoreInit ==
    /\ store = <<>>
    /\ saved = <<>>
    /\ txn = <<>>
    /\ reads = <<>>
    /\ input = <<>>
    /\ result = <<>>
    /\ ScanIdle /\ PriceIdle

\* save_deals_to_db(deals), called with a non-empty list; saved keeps the
\* call, the table before and after it, and saved_count
SaveDeals(deals) ==
    LET st == InsertAll([rows |-> store, saved_count |-> 0], deals)
    IN  /\ store' = st.rows
        /\ saved' = <<[deals |-> deals, before |-> store, after |-> st.rows,
                       saved_count |-> st.saved_count]>>
        /\ UNCHANGED <<txn, reads, scanVars, priceVars, evalVars>>

\* the /clear route: DELETE FROM deals, committed; a writer waits while
\* another connection holds the write lock
ClearDeals ==
    /\ store # <<>>
    /\ ~WriteLocked
    /\ store' = <<>>
    /\ UNCHANGED <<saved, txn, reads, scanVars, priceVars, evalVars>>

StoreNext ==
    \/ \E deals \in SeqsUpTo(Deals, MaxDeals) \ {<<>>} : SaveDeals(deals)
    \/ ClearDeals

SpecStore == StoreInit /\ [][StoreNext]_vars

\* ------------------------------------------- dashboard beside the scanner
\* The scanner thread and the Flask threads each open their own connection
\* to deals.db.  sqlite3 opens a transaction before the first INSERT of a
\* connection and the rows written in it reach the other connections at
\* conn.commit(); store holds the committed rows, txn the rows as the
\* writing connection sees them.

\* a connection in autocommit, or a commit inside the loop: each inserted
\* row is visible to the other connections at once
VisibleAfterInsertAutocommit(committed, rows) == rows

\* the committed rows after an INSERT of the loop of save_deals_to_db: the
\* loop does not commit
VisibleAfterInsert(committed, rows) == committed

\* the deals of the batches saved beside the dashboard
DashboardDeals ==
    [listing_id : Ids, strategy : {"Conservative"}, profit : {15}]

DashboardInit == StoreInit

\* sqlite3.connect and the first turn of the loop of save_deals_to_db
SaveFirstInsert(deals) ==
    /\ txn = <<>>
    /\ LET st == InsertDeal([rows |-> store, saved_count |-> 0], Head(deals))
       IN  /\ txn' = <<[deals |-> deals, todo |-> Tail(deals),
                        before |-> store, rows |-> st.rows,
                        saved_count |-> st.saved_count]>>
           /\ store' = VisibleAfterInsert(store, st.rows)
    /\ UNCHANGED <<saved, reads, scanVars, priceVars, evalVars>>

\* a further turn of the loop
SaveNextInsert ==
    /\ txn # <<>>
    /\ txn[1].todo # <<>>
    /\ LET st == InsertDeal([rows |-> txn[1].rows,
                             saved_count |-> txn[1].saved_count],
                            Head(txn[1].todo))
       IN  /\ txn' = <<[txn[1] EXCEPT !.todo = Tail(@), !.rows = st.rows,
                                      !.saved_count = st.saved_count]>>
           /\ store' = VisibleAfterInsert(store, st.rows)
    /\ UNCHANGED <<saved, reads, scanVars, priceVars, evalVars>>

\* conn.commit(); conn.close() after the loop
SaveCommit ==
    /\ txn # <<>>
    /\ txn[1].todo = <<>>
    /\ store' = txn[1].rows
    /\ txn' = <<>>
    /\ UNCHANGED <<saved, reads, scanVars, priceVars, evalVars>>

\* an exception leaves save_deals_to_db (conn.commit() raising on a locked
\* database): the connection is dropped and its transaction rolled back
SaveAbandoned ==
    /\ txn # <<>>
    /\ txn' = <<>>
    /\ UNCHANGED <<store, saved, reads, scanVars, priceVars, evalVars>>

\* the SELECT of dashboard(): one statement on a connection of its own,
\* which reads the committed rows; reads keeps them together with the
\* state of the save in progress, if there is one
DashboardRead ==
    /\ reads' = <<[rows |-> store,
                   during |-> IF txn = <<>> THEN <<>>
                              ELSE <<[before |-> txn[1].before,
                                      written |-> txn[1].saved_count]>>]>>
    /\ UNCHANGED <<store, saved, txn, scanVars, priceVars, evalVars>>

DashboardNext ==
    \/ \E deals \in SeqsUpTo(DashboardDeals, MaxDeals) \ {<<>>} :
          SaveFirstInsert(deals)
    \/ SaveNextInsert
    \/ SaveCommit
    \/ SaveAbandoned
    \/ DashboardRead
    \/ ClearDeals

SpecDashboard == DashboardInit /\ [][DashboardNext]_vars

\* ------------------------------------------------ one cycle, fetch to save
\* deals.extend(more), with the new deals put in front
extend_in_front(deals, more) == more \o deals

\* deals.extend(more)
extend(deals, more) == deals \o more

\* what one strategy adds to the cycle's deals; analyze_float_tier_upgrade
\* is called only when float_tier_upgrade.enabled is set
Contribution(strategy, ls, cfg, quote) ==
    IF strategy = "float_tier" /\ ~cfg.float_tier_upgrade_enabled THEN <<>>
    ELSE analyze(strategy, ls, cfg, quote).deals

RECURSIVE ExtendFrom(_, _, _, _, _)
\* the deals.extend calls of run_continuous_scan from the k-th on
ExtendFrom(k, deals, ls, cfg, quote) ==
    IF k > Len(Strategies) THEN deals
    ELSE ExtendFrom(k + 1,
                    extend(deals, Contribution(Strategies[k], ls, cfg, quote)),
                    ls, cfg, quote)

\* deals = []; deals.extend(...) for each strategy in turn
CycleDeals(ls, cfg, quote) == ExtendFrom(1, <<>>, ls, cfg, quote)

\* item.get('id') of each listing
IdsOf(ls) == [k \in 1..Len(ls) |-> ls[k].id]

\* a listing near the floor of its wear tier, without stickers or charms:
\* Price Anomaly and Float Tier Upgrade can find a deal in it
NearTierItem == With(PlainItem, [float_value |-> 151, price |-> 9000])

\* the batches a fetch can return: listings of distinct identifiers in the
\* order of the feed, none of an identifier in seen_listing_ids
CycleListings(seen) ==
    UNION {{[k \in 1..Len(ids) |-> With(kind[k], [id |-> ids[k]])] :
               kind \in [1..Len(ids) -> {RichItem, NearTierItem}]} :
           ids \in Ascending(Ids \ seen) \ {<<>>}}

\* a profit table that accepts every deal, and one that asks for 15 dollars
\* or 15 percent
CycleTargets ==
    {<<[max_skin_price |-> 200, min_profit_usd |-> -1000,
        min_profit_percentage |-> -1000]>>,
     <<[max_skin_price |-> 200, min_profit_usd |-> 15,
        min_profit_percentage |-> 15]>>}

CycleInit ==
    /\ ScanIdle /\ PriceIdle /\ StoreIdle
    /\ input \in
        [cfg : [dynamic_profit_targets : CycleTargets,
                sticker_retention_tiers : {BatchRetention},
                float_tier_upgrade_enabled : BOOLEAN],
         quote : {20000}]
    /\ result = <<>>

\* one turn of while True with a non-empty fetch: the strategies in order,
\* save_deals_to_db if there are deals, then the merge into
\* seen_listing_ids; save_deals_to_db raising (sqlite3.connect or
\* conn.commit) leaves the table as it was and skips the merge
ScanCycle(ls, raised) ==
    /\ cycle < MaxCycles
    /\ cycle' = cycle + 1
    /\ LET deals == CycleDeals(ls, input.cfg, input.quote)
           st == InsertAll([rows |-> store, saved_count |-> 0], deals)
       IN  /\ raised => deals # <<>>
           /\ store' = IF raised THEN store ELSE st.rows
           /\ saved' = <<[deals |-> deals, before |-> store,
                          after |-> store',
                          saved_count |-> IF raised THEN 0
                                          ELSE st.saved_count,
                          raised |-> raised]>>
           /\ seen_listing_ids' =
                  MergeSeen(seen_listing_ids, IdsOf(ls), raised)
    /\ UNCHANGED <<pc, page, cursor, all_items, listings, batch, outcome,
                   trace, evalCount>>
    /\ UNCHANGED <<txn, reads, priceVars, evalVars>>

CycleNext ==
    \/ \E ls \in CycleListings(seen_listing_ids), raised \in BOOLEAN :
          ScanCycle(ls, raised)
    \/ ClearDeals

SpecCycle == CycleInit /\ [][CycleNext]_vars

\* ------------------------------------------------------------ properties
Last(s) == s[Len(s)]

Reqs == RequestsOf(trace)

NonRateLimited == Len(SelectSeq(Reqs, LAMBDA e : e.resp # "429"))

\* the fetch has returned and the loop ended by break on an error response
StoppedByError ==
    /\ pc \in {"analyze", "sleep"}
    /\ trace # <<>>
    /\ Last(trace).ev = "request"
    /\ Last(trace).resp \in ErrorKinds

\* the fetch has returned because the for loop ran out of indices
LoopExhausted ==
    /\ pc = "analyze"
    /\ (trace = <<>> \/ Last(trace).ev = "sleep")

RECURSIVE UnseenOfPages(_, _)
\* the not-yet-seen listings of the valid pages among the requests rs
UnseenOfPages(rs, seen) ==
    IF rs = <<>> THEN <<>>
    ELSE LET e == Head(rs)
             own == IF e.resp = "ok"
                    THEN SelectSeq(e.items, LAMBDA i : i \notin seen)
                    ELSE <<>>
         IN  own \o UnseenOfPages(Tail(rs), seen)

\* C1: a listing identifier is handed to the strategies at most once in the
\* lifetime of the scanner.
C1_EvaluatedAtMostOnce == \A i \in Ids : evalCount[i] <= 1

\* C2: a 429 response does not use up page budget: a fetch that ends because
\* the budget ran out has obtained scan_pages non-rate-limited pages.
C2_RateLimitKeepsBudget == LoopExhausted => NonRateLimited = ScanPages

\* C3: every 429 response is followed by one 60-unit wait and then by a
\* request with the same cursor, and the returned listings are those of the
\* valid pages, none lost and none doubled by the retry.
C3_RateLimitRetried ==
    pc = "analyze" =>
        /\ \A k \in 1..Len(trace) :
             (trace[k].ev = "request" /\ trace[k].resp = "429") =>
                /\ k + 2 <= Len(trace)
                /\ trace[k + 1] = SleepEv(Tenths(RateLimitWait))
                /\ trace[k + 2].ev = "request"
                /\ trace[k + 2].cursor = trace[k].cursor
        /\ listings = UnseenOfPages(Reqs, seen_listing_ids)

\* C4: when a cycle reaches the inter-cycle sleep, every identifier its
\* fetch returned is in seen_listing_ids, whatever the cycle's outcome.
C4_FetchedAreSeen == pc = "sleep" => Range(listings) \subseteq seen_listing_ids

\* C5: no identifier that was in seen_listing_ids when the fetch was called
\* appears in what the fetch accumulates or returns.
C5_SeenNeverReturned ==
    pc \in {"fetch", "analyze"} =>
        /\ Range(all_items) \cap seen_listing_ids = {}
        /\ Range(listings) \cap seen_listing_ids = {}

C5_Witness ==
    /\ pc = "analyze"
    /\ listings # <<>>
    /\ \E k \in 1..Len(Reqs) :
         /\ Reqs[k].resp = "ok"
         /\ Range(Reqs[k].items) \cap seen_listing_ids # {}
         /\ Range(Reqs[k].items) \ seen_listing_ids # {}

\* C6: one fetch issues at most scan_pages page requests, and a further
\* request is possible only while the loop index is below scan_pages.
C6_AtMostScanPagesRequests ==
    /\ Len(Reqs) <= ScanPages
    /\ pc = "fetch" => page < ScanPages /\ Len(Reqs) = page

C6_Witness ==
    /\ pc = "analyze"
    /\ Len(Reqs) = ScanPages
    /\ \E k \in 1..Len(Reqs) : Reqs[k].resp = "429"

\* C7: a fetch stopped by an error on page k returns normally with exactly
\* the not-yet-seen listings of the valid pages before it, and the cycle
\* hands those listings to the strategies.
C7_PartialFetchReturnedAndEvaluated ==
    StoppedByError =>
        /\ pc = "analyze" => listings = UnseenOfPages(Reqs, seen_listing_ids)
        /\ pc = "sleep" /\ listings # <<>> => batch = listings

C7_Witness ==
    /\ StoppedByError
    /\ pc = "sleep"
    /\ Len(Reqs) >= 2
    /\ batch # <<>>
    /\ batch = listings

LivePositions == {"start", "fetch", "analyze", "sleep"}

\* C8: the scan loop never terminates: whatever the cycle body does, an
\* exception included, the loop goes on to the interval sleep, and after the
\* sleep it is back at the start of a new cycle.
C8_CycleFailureContained ==
    /\ [](pc \in LivePositions)
    /\ [](pc = "start" /\ cycle < MaxCycles => ENABLED StartCycle)
    /\ [][/\ pc = "analyze" => pc' = "sleep"
          /\ pc = "sleep" =>
                /\ pc' = "start"
                /\ trace' = <<SleepEv(Tenths(ScanInterval))>>]_vars

C8_Witness ==
    /\ outcome = "raised"
    /\ pc = "start"
    /\ trace = <<SleepEv(Tenths(ScanInterval))>>
    /\ cycle < MaxCycles
    /\ ENABLED StartCycle

\* the number of external price requests made by call k (0 or 1)
RequestsBy(k) == IF calls[k].requested THEN 1 ELSE 0

\* calls i < j for the same name, started less than 3600 units apart
CloseCalls(i, j) ==
    /\ i < j
    /\ calls[i].name = calls[j].name
    /\ calls[j].at - calls[i].at < Tenths(CacheTtl)

\* call k found an entry that was cached 3600 or more units before it
FoundExpired(k) ==
    /\ calls[k].before # <<>>
    /\ calls[k].at - calls[k].before[1].timestamp >= Tenths(CacheTtl)

\* C9 (as stated): any two calls for the same name less than 3600 units
\* apart trigger exactly one external price request in total.
C9_OneRequestPerWindow ==
    \A i, j \in 1..Len(calls) :
        CloseCalls(i, j) => RequestsBy(i) + RequestsBy(j) = 1

\* C9 (amended): two calls for the same name less than 3600 units apart, the
\* first of which made a successful external lookup, trigger exactly one
\* external price request in total: the second is answered from the cache.
C9_OneRequestAfterSuccessfulLookup ==
    \A i, j \in 1..Len(calls) :
        CloseCalls(i, j) /\ calls[i].requested /\ calls[i].status = "ok" =>
            /\ RequestsBy(i) + RequestsBy(j) = 1
            /\ calls[j].source = "cache"
            /\ calls[j].ret = calls[i].quoted

C9_Witness ==
    \E i, j \in 1..Len(calls) :
        /\ CloseCalls(i, j)
        /\ calls[i].requested /\ calls[i].status = "ok"
        /\ calls[j].at - calls[i].at = Tenths(CacheTtl) - 1
        /\ ~calls[j].requested

\* C10 (as stated): a call made 3600 or more units after the entry was
\* cached issues a new request, does not answer from the cache, and
\* overwrites the entry with the result of that request.
C10_ExpiredEntryOverwritten ==
    \A k \in 1..Len(calls) :
        FoundExpired(k) =>
            /\ calls[k].requested
            /\ calls[k].source # "cache"
            /\ calls[k].after # <<>>
            /\ calls[k].after[1].timestamp = calls[k].at

\* C10 (amended): a call made 3600 or more units after the entry was cached
\* issues a new request and never answers from the cache; when the request
\* succeeds it overwrites the entry (price and timestamp) with the result and
\* returns the new price; when the request fails it returns 0 and leaves the
\* expired entry as it was.
C10_ExpiredEntryRefetched ==
    /\ \A k \in 1..Len(calls) :
        FoundExpired(k) =>
            /\ calls[k].requested
            /\ calls[k].source # "cache"
            /\ calls[k].status = "ok" =>
                 /\ calls[k].after =
                      <<[price |-> calls[k].quoted, timestamp |-> calls[k].at]>>
                 /\ calls[k].ret = calls[k].quoted
            /\ calls[k].status # "ok" =>
                 /\ calls[k].after = calls[k].before
                 /\ calls[k].ret = 0
    /\ calls # <<>> =>
         CacheGet(price_cache, Last(calls).name) = Last(calls).after

C10_Witness ==
    \E k \in 1..Len(calls) :
        /\ FoundExpired(k)
        /\ calls[k].at - calls[k].before[1].timestamp = Tenths(CacheTtl)
        /\ calls[k].status = "ok"
        /\ calls[k].quoted # calls[k].before[1].price
        /\ price_cache[calls[k].name].price = calls[k].quoted

\* C11: a failed external lookup (network error, unsuccessful HTTP status,
\* malformed body, success = false) returns the sentinel 0 and leaves
\* price_cache as it was.
C11_FailedLookupNotCached ==
    /\ \A k \in 1..Len(calls) :
        calls[k].status \in LookupFailures =>
            /\ calls[k].ret = 0
            /\ calls[k].source = "sentinel"
            /\ calls[k].after = calls[k].before
    /\ \A n \in DOMAIN price_cache :
        \E k \in 1..Len(calls) :
            /\ calls[k].name = n
            /\ calls[k].status = "ok"
            /\ price_cache[n] =
                 [price |-> calls[k].quoted, timestamp |-> calls[k].at]

C11_Witness ==
    /\ Len(calls) >= 2
    /\ {calls[k].status : k \in 1..Len(calls)} \cap LookupFailures # {}
    /\ Last(calls).status \in LookupFailures
    /\ Last(calls).before # <<>>
    /\ Last(calls).ret = 0
    /\ CacheGet(price_cache, Last(calls).name) = Last(calls).before

\* C18: when every page request succeeds and page K is the first without a
\* continuation cursor, exactly K requests are issued, the first without a
\* cursor and each later one with the cursor the page before it returned.
C18_PaginationFollowsCursor ==
    (\A k \in 1..Len(Reqs) : Reqs[k].resp = "ok") =>
        /\ \A k \in 1..Len(Reqs) :
             /\ Reqs[k].cursor = (IF k = 1 THEN NoCursor ELSE Reqs[k - 1].next)
             /\ Reqs[k].next = NoCursor => k = Len(Reqs) /\ pc # "fetch"
        /\ pc = "fetch" => Len(Reqs) < ScanPages

C18_Witness ==
    /\ pc = "analyze"
    /\ Len(Reqs) = 2
    /\ \A k \in 1..Len(Reqs) : Reqs[k].resp = "ok"
    /\ Reqs[1].next # NoCursor
    /\ Reqs[2].cursor = Reqs[1].next
    /\ Reqs[2].next = NoCursor

\* C19: the 2.5-unit cooldown is taken exactly by the calls that made a
\* successful external lookup, after the result was stored and before the
\* call returns; cache hits and failed lookups return without waiting.
C19_CooldownOnlyAfterSuccess ==
    /\ \A k \in 1..Len(calls) :
        /\ calls[k].waited =
             (IF calls[k].requested /\ calls[k].status = "ok"
              THEN PriceCooldownTenths ELSE 0)
        /\ calls[k].waited # 0 =>
             /\ calls[k].after # <<>>
             /\ calls[k].after[1].timestamp = calls[k].at
    /\ calls # <<>> =>
         now >= Last(calls).at + Last(calls).waited
    /\ \A k \in 1..Len(calls) - 1 :
         calls[k + 1].at >= calls[k].at + calls[k].waited

C19_Witness ==
    /\ Len(calls) = 3
    /\ calls[1].status = "ok" /\ calls[1].waited = PriceCooldownTenths
    /\ calls[2].source = "cache" /\ calls[2].waited = 0
    /\ calls[3].status \in LookupFailures /\ calls[3].waited = 0
    /\ now = calls[3].at

\* C12: is_deal_profitable is false for base_price <= 0 and when no tier
\* has base_price <= max_skin_price; otherwise the first such tier alone
\* decides (profit >= min_profit_usd or profit/base_price*100 >=
\* min_profit_percentage), so that replacing the tiers after it changes
\* nothing.
C12_FirstTierDecides ==
    result # <<>> =>
        LET k == FirstMatch(input.targets, input.base_price)
            p == input.profit
            b == input.base_price
        IN  /\ b <= 0 \/ k = 0 => result[1].value = FALSE
            /\ b > 0 /\ k # 0 =>
                 result[1].value =
                    (\/ p >= input.targets[k].min_profit_usd
                     \/ p * 100 >= input.targets[k].min_profit_percentage * b)
            /\ result[1].retailed = result[1].value

C12_Witness ==
    /\ result # <<>>
    /\ input.base_price > 0
    /\ FirstMatch(input.targets, input.base_price) = 1
    /\ Len(input.targets) = 2
    /\ result[1].value = FALSE
    /\ input.base_price <= input.targets[2].max_skin_price
    /\ TierAccepts(input.targets[2], input.profit, input.base_price)
    /\ input.tail # <<>>
    /\ TierAccepts(input.tail[1], input.profit, input.base_price)

\* the listing passes the pre-filter shared by the strategies
Prefiltered(item) == ~item.is_souvenir /\ item.weapon \in included_weapons

\* the total sticker value of a listing, in cents: per sticker the market
\* quote, or the reference quote when there is none
StickerCents(item) ==
    LET q(k) == IF item.stickers[k].scm # 0 THEN item.stickers[k].scm
                ELSE item.stickers[k].ref
    IN  IF Len(item.stickers) = 0 THEN 0
        ELSE IF Len(item.stickers) = 1 THEN q(1)
        ELSE q(1) + q(2)

\* listing_price <= base_price * (1 + max_over_base_percent/100) and
\* sticker value >= floor, prices in cents
OverpayRule(item) ==
    /\ item.price * 100 <= item.base_price * (100 + OverpayMaxAboveBase)
    /\ StickerCents(item) >= 100 * OverpayMinStickerValue

\* C16 (as stated): a non-souvenir, included-weapon listing yields a High
\* Overpay deal exactly when its price is within the cap over the base price
\* and its sticker value reaches the floor; the profit field is the sticker
\* value; the profit tiers play no part.
C16_OverpayExactlyByRule ==
    result # <<>> /\ Prefiltered(input.item) =>
        /\ (result[1].deals # <<>>) = OverpayRule(input.item)
        /\ result[1].deals # <<>> =>
             result[1].deals[1].profit = Units(StickerCents(input.item))

\* C16 (amended): a non-souvenir, included-weapon listing with a nonzero
\* base price yields a High Overpay deal exactly when its price is within
\* the cap over the base price and its sticker value reaches the floor; a
\* listing with base price 0 yields none; the profit field is the sticker
\* value; the profit tiers play no part.
C16_OverpayByRuleOnPricedBase ==
    result # <<>> =>
        /\ Prefiltered(input.item) /\ input.item.base_price # 0 =>
             (result[1].deals # <<>>) = OverpayRule(input.item)
        /\ ~Prefiltered(input.item) \/ input.item.base_price = 0 =>
             result[1].deals = <<>>
        /\ result[1].deals # <<>> =>
             /\ result[1].deals[1].profit = Units(StickerCents(input.item))
             /\ result[1].deals[1].strategy = "High Overpay Potential"
             /\ result[1].deals[1].listing_id = input.item.id

C16_Witness ==
    /\ result # <<>>
    /\ result[1].deals # <<>>
    /\ input.item.price = 10500
    /\ input.item.base_price = 10000
    /\ StickerCents(input.item) = 5000
    /\ result[1].deals[1].profit = Units(5000)
    /\ ~is_deal_profitable(Units(5000), Units(input.item.base_price),
                           InUnits(input.cfg.dynamic_profit_targets))

\* the first bracket of the table with base_price <= max_skin_price, as a
\* sequence of at most one bracket (base price in cents, ceilings in dollars)
FirstBracket(table, base_cents) ==
    LET hits == {k \in 1..Len(table) :
                    base_cents <= 100 * table[k].max_skin_price}
    IN  IF hits = {} THEN <<>>
        ELSE <<table[CHOOSE k \in hits : \A j \in hits : k <= j]>>

\* profit = (base_price + sticker_value * retention) - listing_price for a
\* bracket's retention
StickerProfit(item, bracket) ==
    (Units(item.base_price) + StickerCents(item) * bracket.retention)
    - Units(item.price)

\* the listing is one the sticker strategy values
StickerCandidate(item) ==
    /\ Prefiltered(item)
    /\ item.base_price # 0
    /\ StickerCents(item) # 0

\* C17: for a non-souvenir, included-weapon listing with nonzero base price
\* and nonzero sticker value, analyze_sticker_deals(variant) emits a deal iff
\* a first bracket with base_price <= max_skin_price exists and
\* is_deal_profitable holds for profit = (base_price + sticker_value *
\* retention) - listing_price with that bracket's retention; the emitted
\* profit is that profit; no other listing yields a deal.
C17_StickerDealIffBracketAndProfitable ==
    result # <<>> =>
        LET item == input.item
            bracket ==
                FirstBracket(
                    input.cfg.sticker_retention_tiers[result[1].strategy_name],
                    item.base_price)
        IN  /\ StickerCandidate(item) =>
                 (result[1].deals # <<>>) =
                    (/\ bracket # <<>>
                     /\ is_deal_profitable(
                            StickerProfit(item, bracket[1]),
                            Units(item.base_price),
                            InUnits(input.cfg.dynamic_profit_targets)))
            /\ ~StickerCandidate(item) => result[1].deals = <<>>
            /\ result[1].deals # <<>> =>
                 result[1].deals[1].profit = StickerProfit(item, bracket[1])

\* the float range of a wear tier, in thousandths: from its minimum float to
\* the minimum float of the next worse tier, or to 1.0 for the worst
TierMin(wear) == wear_tier_min_floats[wear]

TierMax(wear) ==
    IF WearIndex(wear) = Len(wear_tiers) THEN 1000
    ELSE wear_tier_min_floats[wear_tiers[WearIndex(wear) + 1]]

\* position = (float - tier_min) / (tier_max - tier_min) is within the top
\* percentile
InTopPercentile(item) ==
    /\ item.float_value >= TierMin(item.wear_name)
    /\ (item.float_value - TierMin(item.wear_name)) * 100
         <= LowFloatTopPercentile
            * (TierMax(item.wear_name) - TierMin(item.wear_name))

\* profit = gap * retention - (listing_price - base_price)
LowFloatProfit(item, quote) ==
    (quote - item.base_price) * LowFloatRetention
    - (Units(item.price) - Units(item.base_price))

\* C13: analyze_low_float_deals emits a 'Low Float' deal for every
\* non-souvenir, included-weapon listing of a non-Factory-New wear tier whose
\* float lies within the top percentile of its tier's float range, whose
\* next-better-tier price exceeds its base price by at least the minimum
\* gap, and whose profit passes is_deal_profitable on the base price; it
\* emits no deal for any other listing.
C13_LowFloatDealIffInTopPercentile ==
    result # <<>> /\ input.item.malformed = "none" =>
        LET item == input.item
        IN  (result[1].deals # <<>>) =
                (/\ Prefiltered(item)
                 /\ item.wear_name \in Range(wear_tiers) \ {"Factory New"}
                 /\ InTopPercentile(item)
                 /\ Units(input.quote) - Units(item.base_price)
                        >= Usd(LowFloatMinGapUsd)
                 /\ is_deal_profitable(
                        LowFloatProfit(item, input.quote),
                        Units(item.base_price),
                        InUnits(input.cfg.dynamic_profit_targets)))

\* the tier one step toward Factory New
TierBetter(wear) == wear_tiers[WearIndex(wear) - 1]

\* non-souvenir, of a non-Factory-New wear tier, float below the tier's
\* minimum float plus the proximity threshold
UpgradeEligible(item) ==
    /\ ~item.is_souvenir
    /\ item.wear_name \in Range(wear_tiers) \ {"Factory New"}
    /\ item.float_value < TierMin(item.wear_name) + FloatProximity

\* C20: the Float Tier Upgrade strategy contributes deals (and asks for
\* prices) only when float_tier_upgrade.enabled is set; it emits deals only
\* for non-souvenir listings of a non-Factory-New wear tier whose float is
\* below the tier's minimum float plus the proximity threshold, so that a
\* Field-Tested float of 0.151 is eligible and one of 0.20 is not; every
\* price it asks for is that of the tier immediately better.
C20_FloatTierUpgradeGatedAndEligible ==
    result # <<>> =>
        /\ ~input.cfg.float_tier_upgrade_enabled =>
             /\ ~result[1].called
             /\ result[1].deals = <<>>
             /\ result[1].lookups = <<>>
        /\ result[1].deals # <<>> \/ result[1].lookups # <<>> =>
             /\ input.cfg.float_tier_upgrade_enabled
             /\ UpgradeEligible(input.item)
        /\ input.item.wear_name = "Field-Tested"
           /\ input.item.float_value = 200 =>
             ~UpgradeEligible(input.item) /\ result[1].deals = <<>>
        /\ input.item.wear_name = "Field-Tested"
           /\ input.item.float_value = 151
           /\ ~input.item.is_souvenir =>
             UpgradeEligible(input.item)
        /\ \A k \in 1..Len(result[1].lookups) :
             /\ result[1].lookups[k].wear = TierBetter(input.item.wear_name)
             /\ result[1].lookups[k].weapon = input.item.weapon
        /\ result[1].deals # <<>> =>
             /\ Len(result[1].lookups) = 1
             /\ result[1].deals[1].profit
                  = Units(input.quote) - Units(input.item.price)

C20_Witness ==
    /\ result # <<>>
    /\ input.cfg.float_tier_upgrade_enabled
    /\ input.item.wear_name = "Field-Tested"
    /\ input.item.float_value = 151
    /\ result[1].deals # <<>>
    /\ result[1].lookups
         = <<[weapon |-> "AK-47", qualified |-> FALSE,
              wear |-> "Minimal Wear"]>>
    /\ result[1].deals[1].profit = Units(20000) - Units(input.item.price)

\* the listing has a field of the wrong type or lacks a field
Bad(item) ==
    \/ item.malformed # "none"
    \/ item.wear_name = ""
    \/ item.base_price = 0

\* the sequence without its k-th element
Without(seq, k) == SubSeq(seq, 1, k - 1) \o SubSeq(seq, k + 1, Len(seq))

\* the deals that are not for the listing id
DealsOfOthers(deals, id) ==
    SelectSeq(deals, LAMBDA d : d.listing_id # id)

\* C14: for each strategy and every batch, no exception leaves the strategy,
\* and for every bad listing of the batch the deals emitted for the other
\* listings are those the strategy emits on the batch without it.
C14_BadListingAbsorbed ==
    result # <<>> =>
        /\ ~result[1].escaped
        /\ \A k \in 1..Len(input.listings) :
             Bad(input.listings[k]) =>
                DealsOfOthers(result[1].deals, input.listings[k].id)
                  = analyze(result[1].strategy, Without(input.listings, k),
                            input.cfg, input.quote).deals

C14_Witness ==
    /\ result # <<>>
    /\ Len(input.listings) = 2
    /\ input.listings[1].malformed = "price"
    /\ ~Bad(input.listings[2])
    /\ result[1].strategy = "float_tier"
    /\ Len(result[1].deals) = 1
    /\ result[1].deals[1].listing_id = 2
    /\ ~result[1].escaped

\* s is an initial part of t
IsPrefix(s, t) == Len(s) <= Len(t) /\ SubSeq(t, 1, Len(s)) = s

\* no two rows of the table have the same listing_id
UniqueListingIds(rows) ==
    \A j, k \in 1..Len(rows) :
        rows[j].listing_id = rows[k].listing_id => j = k

\* C15: save_deals_to_db is insert-or-skip by listing_id: the records
\* already stored are left as they were (also those whose listing_id comes
\* again in the batch), the saved count is the number of rows newly
\* inserted, each listing_id of the batch is stored once, and a save of a
\* batch whose identifiers are all stored - the same batch saved a second
\* time - inserts nothing and leaves the table as it was.
C15_InsertOrSkip ==
    saved # <<>> =>
        LET call == saved[1]
        IN  /\ IsPrefix(call.before, call.after)
            /\ call.saved_count = Len(call.after) - Len(call.before)
            /\ UniqueListingIds(call.after)
            /\ ListingIds(call.after)
                 = ListingIds(call.before)
                   \cup {call.deals[k].listing_id :
                            k \in 1..Len(call.deals)}
            /\ \A k \in Len(call.before) + 1..Len(call.after) :
                 \E j \in 1..Len(call.deals) :
                    /\ call.after[k] = Row(call.deals[j])
                    /\ \A i \in 1..j - 1 :
                         call.deals[i].listing_id # call.deals[j].listing_id
            /\ (\A k \in 1..Len(call.deals) :
                    call.deals[k].listing_id \in ListingIds(call.before)) =>
                 call.after = call.before /\ call.saved_count = 0
            /\ InsertAll([rows |-> call.after, saved_count |-> 0],
                         call.deals)
                 = [rows |-> call.after, saved_count |-> 0]

C15_Witness ==
    /\ saved # <<>>
    /\ saved[1].before
         = <<[listing_id |-> 1, strategy |-> "Conservative", profit |-> 15]>>
    /\ saved[1].deals
         = <<[listing_id |-> 1, strategy |-> "Aggressive", profit |-> 15],
             [listing_id |-> 2, strategy |-> "Conservative", profit |-> 15]>>
    /\ saved[1].saved_count = 1
    /\ store
         = <<[listing_id |-> 1, strategy |-> "Conservative", profit |-> 15],
             [listing_id |-> 2, strategy |-> "Conservative", profit |-> 15]>>

\* C21: seen_listing_ids is append-only: no step removes an identifier from
\* it, a step of fetch_listings leaves it unchanged, and it changes only in
\* the step of run_continuous_scan in which the strategies have run on the
\* fetched listings without an exception, by gaining their identifiers.
C21_SeenAppendOnly ==
    [][/\ seen_listing_ids \subseteq seen_listing_ids'
       /\ pc = "fetch" => seen_listing_ids' = seen_listing_ids
       /\ seen_listing_ids' # seen_listing_ids =>
            /\ pc = "analyze" /\ pc' = "sleep"
            /\ outcome' \in {"no_deals", "saved"}
            /\ batch' = listings
            /\ seen_listing_ids' = seen_listing_ids \cup Range(listings)]_vars

C21_Witness ==
    /\ cycle = 2
    /\ pc = "sleep"
    /\ listings # <<>>
    /\ seen_listing_ids \ Range(listings) # {}
    /\ Range(listings) \subseteq seen_listing_ids
    /\ Len(Reqs) = ScanPages

\* the rows are the table before the batch followed by the rows the whole
\* batch adds to it
AfterBatch(before, deals) ==
    InsertAll([rows |-> before, saved_count |-> 0], deals).rows

\* C22: whatever the interleaving of the dashboard's SELECT with the steps
\* of save_deals_to_db, the rows read are the table as it was before the
\* batch in progress, never a part of that batch, and no two of them have
\* the same listing_id; the commit makes the whole batch readable at once.
C22_ReadSeesWholeBatches ==
    /\ reads # <<>> =>
         /\ UniqueListingIds(reads[1].rows)
         /\ reads[1].during # <<>> =>
              reads[1].rows = reads[1].during[1].before
    /\ txn # <<>> =>
         /\ store = txn[1].before
         /\ txn[1].todo = <<>> =>
              txn[1].rows = AfterBatch(txn[1].before, txn[1].deals)

C22_Witness ==
    /\ reads # <<>>
    /\ reads[1].during # <<>>
    /\ reads[1].during[1].written = 1
    /\ reads[1].rows = reads[1].during[1].before
    /\ txn = <<>>
    /\ Len(store) = Len(reads[1].rows) + 2

\* the strategy names of the deals, in the order run_continuous_scan runs
\* the strategies
RunOrder ==
    <<"Conservative", "Aggressive", "Charm Arbitrage", "Low Float",
      "High Overpay Potential", "Price Anomaly", "Float Tier Upgrade">>

Rank(strategy) == CHOOSE k \in 1..Len(RunOrder) : RunOrder[k] = strategy

\* what the last cycle left in the table: for each listing of its deals one
\* row, that of the first strategy in the run order with a deal for it; the
\* other deals dropped and not counted
FirstStrategyStored ==
    saved # <<>> =>
        LET call == saved[1]
        IN  /\ IsPrefix(call.before, call.after)
            /\ call.raised => call.after = call.before
            /\ ~call.raised =>
                 /\ call.saved_count = Len(call.after) - Len(call.before)
                 /\ \A j \in 1..Len(call.deals) :
                      \E k \in Len(call.before) + 1..Len(call.after) :
                         /\ call.after[k].listing_id
                              = call.deals[j].listing_id
                         /\ Rank(call.after[k].strategy)
                              <= Rank(call.deals[j].strategy)
                 /\ \A k \in Len(call.before) + 1..Len(call.after) :
                      \E j \in 1..Len(call.deals) :
                         call.after[k] = Row(call.deals[j])

\* C23: the table holds at most one deal per listing_id; of the deals one
\* listing yields in a cycle only that of the first strategy in the run
\* order is stored, the others are dropped without an exception; a stored
\* listing is in seen_listing_ids, no later cycle has a deal for a listing
\* in seen_listing_ids, and a step changes the table only by adding rows
\* after the ones it has or by clearing it.
C23_OneDealPerListingFirstStrategy ==
    /\ [](/\ UniqueListingIds(store)
          /\ ListingIds(store) \subseteq seen_listing_ids
          /\ FirstStrategyStored)
    /\ [][/\ store' = <<>> \/ IsPrefix(store, store')
          /\ cycle' # cycle =>
               \A j \in 1..Len(saved'[1].deals) :
                  saved'[1].deals[j].listing_id \notin seen_listing_ids]_vars

C23_Witness ==
    /\ saved # <<>>
    /\ cycle = 2
    /\ ~saved[1].raised
    /\ saved[1].before # <<>>
    /\ Len(saved[1].deals) > saved[1].saved_count + 2
    /\ Len(store) = 2
    /\ store[2].strategy = "Conservative"
    /\ \E j \in 1..Len(saved[1].deals) :
         /\ saved[1].deals[j].listing_id = store[2].listing_id
         /\ saved[1].deals[j].strategy = "Float Tier Upgrade"

====
